---------------------------- MODULE Spec2Model ----------------------------
(***************************************************************************)
(* Model of src/actions/parser.ts (vscode-journal): the Parser class that  *)
(* turns one line of user text into an Input (flags, offset, text, scope). *)
(*                                                                         *)
(* A JavaScript string is a sequence of one-character strings.  A value    *)
(* that may be a string, undefined or null is a record [t, s]; a number    *)
(* that may be NaN is a record [nan, n]; the result of a function that may *)
(* throw is a record [thrown, val].                                        *)
(***************************************************************************)
EXTENDS Integers, Sequences, FiniteSets, TLC

----------------------------------------------------------------------------
(* JavaScript values *)

Undef == [t |-> "undefined", s |-> <<>>]

Null == [t |-> "null", s |-> <<>>]

Str(s) == [t |-> "string", s |-> s]

\* isNullOrUndefined of util
isNullOrUndefined(v) == v.t \in {"undefined", "null"}

NaN == [nan |-> TRUE, n |-> 0]

Num(n) == [nan |-> FALSE, n |-> n]

Returned(v) == [thrown |-> "", val |-> v]

Thrown(e) == [thrown |-> e, val |-> NaN]

TypeError == "TypeError"

----------------------------------------------------------------------------
(* Characters *)

SP == " "

NL == "\n"

DigitChars == <<"0", "1", "2", "3", "4", "5", "6", "7", "8", "9">>

IsDigit(c) == \E k \in 1..10 : DigitChars[k] = c

DigitVal(c) == (CHOOSE k \in 1..10 : DigitChars[k] = c) - 1

\* \s of the pattern, over the alphabet of the model
IsSpace(c) == c \in {SP, NL}

\* . of the pattern: any character but a line terminator
IsDot(c) == c # NL

RECURSIVE Flatten(_)
Flatten(ss) == IF ss = <<>> THEN <<>> ELSE Head(ss) \o Flatten(Tail(ss))

\* s.startsWith(w, i-1)
StartsWithAt(s, i, w) ==
    /\ i + Len(w) - 1 <= Len(s)
    /\ \A k \in 1..Len(w) : s[i + k - 1] = w[k]

AllDigitsAt(s, i, n) ==
    /\ i + n - 1 <= Len(s)
    /\ \A k \in i..(i + n - 1) : IsDigit(s[k])

\* length of the run of digits that starts at position i
RECURSIVE DigitRun(_, _)
DigitRun(s, i) ==
    IF i <= Len(s) /\ IsDigit(s[i]) THEN 1 + DigitRun(s, i + 1) ELSE 0

\* parseInt(s): the value of the leading digits, NaN when there are none
RECURSIVE DigitsValue(_, _)
DigitsValue(s, n) ==
    IF n = 0 THEN 0 ELSE 10 * DigitsValue(s, n - 1) + DigitVal(s[n])

parseInt(s) ==
    IF DigitRun(s, 1) = 0 THEN NaN ELSE Num(DigitsValue(s, DigitRun(s, 1)))

\* s.split("-")
RECURSIVE SplitFrom(_, _, _)
SplitFrom(s, i, cur) ==
    IF i > Len(s) THEN <<cur>>
    ELSE IF s[i] = "-" THEN <<cur>> \o SplitFrom(s, i + 1, <<>>)
    ELSE SplitFrom(s, i + 1, Append(cur, s[i]))

split(s) == SplitFrom(s, 1, <<>>)

\* s.match(/w1|w2|.../) is not null: some word occurs somewhere in s
ContainsAny(s, words) ==
    \E w \in words : \E i \in 1..(Len(s) + 1) : StartsWithAt(s, i, w)

----------------------------------------------------------------------------
(* The expression of getExpression(), by its parts *)

\* flagsRX = (?:(task|todo)\s)
FlagWords ==
    << <<"t","a","s","k">>, <<"t","o","d","o">> >>

\* shortcutRX = (?:(today|tod|yesterday|yes|tomorrow|tom|0)(?:\s|$))
ShortcutWords ==
    << <<"t","o","d","a","y">>,
       <<"t","o","d">>,
       <<"y","e","s","t","e","r","d","a","y">>,
       <<"y","e","s">>,
       <<"t","o","m","o","r","r","o","w">>,
       <<"t","o","m">>,
       <<"0">> >>

\* weekdayRX, the modifier (next|last|n|l)
ModifierWords ==
    << <<"n","e","x","t">>, <<"l","a","s","t">>, <<"n">>, <<"l">> >>

\* weekdayRX, the weekday name, in the order of the alternation
WeekdayWords ==
    << <<"m","o","n","d","a","y">>,
       <<"t","u","e","s","d","a","y">>,
       <<"w","e","d","n","e","s","d","a","y">>,
       <<"t","h","u","r","s","d","a","y">>,
       <<"f","r","i","d","a","y">>,
       <<"s","a","t","u","r","d","a","y">>,
       <<"s","u","n","d","a","y">>,
       <<"m","o","n">>,
       <<"t","u","e">>,
       <<"w","e","d">>,
       <<"t","h","u">>,
       <<"f","r","i">>,
       <<"s","a","t">>,
       <<"s","u","n">>,
       <<"m","o","n","t","a","g">>,
       <<"d","i","e","n","s","t","a","g">>,
       <<"m","i","t","t","w","o","c","h">>,
       <<"d","o","n","n","e","r","s","t","a","g">>,
       <<"f","r","e","i","t","a","g">>,
       <<"s","a","m","s","t","a","g">>,
       <<"s","o","n","n","t","a","g">> >>

\* (?:\s|$) at position i: the positions the match may continue from
BoundaryEnds(s, i) ==
    IF i <= Len(s) /\ IsSpace(s[i]) THEN <<i + 1>>
    ELSE IF i = Len(s) + 1 THEN <<i>>
    ELSE <<>>

\* A way to match the date-expression group from position i: the slots
\* 2..6 it captures and the position the match continues from.
DateCand(g2, g3, g4, g5, g6, next) ==
    [g2 |-> g2, g3 |-> g3, g4 |-> g4, g5 |-> g5, g6 |-> g6, next |-> next]

ShortcutCands(s, i) ==
    Flatten([k \in 1..Len(ShortcutWords) |->
        IF StartsWithAt(s, i, ShortcutWords[k])
        THEN [b \in 1..Len(BoundaryEnds(s, i + Len(ShortcutWords[k]))) |->
                DateCand(Str(ShortcutWords[k]), Undef, Undef, Undef, Undef,
                         BoundaryEnds(s, i + Len(ShortcutWords[k]))[b])]
        ELSE <<>>])

\* offsetRX = (?:((?:\+|\-)\d+)(?:\s|$)); \d+ is greedy and gives back
OffsetCands(s, i) ==
    IF i <= Len(s) /\ s[i] \in {"+", "-"}
    THEN LET run == DigitRun(s, i + 1)
         IN Flatten([k \in 1..run |->
               LET n == run - k + 1
               IN [b \in 1..Len(BoundaryEnds(s, i + 1 + n)) |->
                     DateCand(Undef, Str(SubSeq(s, i, i + n)), Undef, Undef, Undef,
                              BoundaryEnds(s, i + 1 + n)[b])]])
    ELSE <<>>

\* \d{1,2} at position i, greedy: the counts of digits it may take
OneOrTwo(s, i) ==
    (IF AllDigitsAt(s, i, 2) THEN <<2>> ELSE <<>>)
        \o (IF AllDigitsAt(s, i, 1) THEN <<1>> ELSE <<>>)

\* the ends (last position) of \d{1,2}\-\d{1,2} from position i
MonthDayEnds(s, i) ==
    Flatten([a \in 1..Len(OneOrTwo(s, i)) |->
        LET j == i + OneOrTwo(s, i)[a]
        IN IF j <= Len(s) /\ s[j] = "-"
           THEN [b \in 1..Len(OneOrTwo(s, j + 1)) |-> j + OneOrTwo(s, j + 1)[b]]
           ELSE <<>>])

\* the ends of the three alternatives of the calendar date, in their order
IsoEnds(s, i) ==
    (IF AllDigitsAt(s, i, 4) /\ i + 4 <= Len(s) /\ s[i + 4] = "-"
     THEN MonthDayEnds(s, i + 5) ELSE <<>>)
        \o MonthDayEnds(s, i)
        \o [a \in 1..Len(OneOrTwo(s, i)) |-> i + OneOrTwo(s, i)[a] - 1]

\* isoDateRX = (?:((?:\d{4}\-\d{1,2}\-\d{1,2})|(?:\d{1,2}\-\d{1,2})|(?:\d{1,2}))(?:\s|$))
IsoCands(s, i) ==
    Flatten([k \in 1..Len(IsoEnds(s, i)) |->
        LET e == IsoEnds(s, i)[k]
        IN [b \in 1..Len(BoundaryEnds(s, e + 1)) |->
              DateCand(Undef, Undef, Str(SubSeq(s, i, e)), Undef, Undef,
                       BoundaryEnds(s, e + 1)[b])]])

\* \s? at position i, greedy
OptSpaceEnds(s, i) ==
    IF i <= Len(s) /\ IsSpace(s[i]) THEN <<i + 1, i>> ELSE <<i>>

\* weekdayRX = (?:(next|last|n|l)\s(monday|...|sonntag)\s?)
WeekdayCands(s, i) ==
    Flatten([m \in 1..Len(ModifierWords) |->
        LET j == i + Len(ModifierWords[m])
        IN IF StartsWithAt(s, i, ModifierWords[m]) /\ j <= Len(s) /\ IsSpace(s[j])
           THEN Flatten([w \in 1..Len(WeekdayWords) |->
                   IF StartsWithAt(s, j + 1, WeekdayWords[w])
                   THEN [b \in 1..Len(OptSpaceEnds(s, j + 1 + Len(WeekdayWords[w]))) |->
                           DateCand(Undef, Undef, Undef,
                                    Str(ModifierWords[m]), Str(WeekdayWords[w]),
                                    OptSpaceEnds(s, j + 1 + Len(WeekdayWords[w]))[b])]
                   ELSE <<>>])
           ELSE <<>>])

\* (?:shortcut|offset|isoDate|weekday)? : the alternatives in order, then absent
DateCands(s, i) ==
    ShortcutCands(s, i) \o OffsetCands(s, i) \o IsoCands(s, i) \o WeekdayCands(s, i)
        \o << DateCand(Undef, Undef, Undef, Undef, Undef, i) >>

\* flagsRX? : present first, then absent
FlagCands(s, i) ==
    Flatten([k \in 1..Len(FlagWords) |->
        IF StartsWithAt(s, i, FlagWords[k]) /\ i + 4 <= Len(s) /\ IsSpace(s[i + 4])
        THEN << [flag |-> Str(FlagWords[k]), next |-> i + 5] >>
        ELSE <<>>])
        \o << [flag |-> Undef, next |-> i] >>

\* (.*)$ from position i: the rest of the input, when it holds no line terminator
RestMatches(s, i) == \A k \in i..Len(s) : IsDot(s[k])

\* every way to match ^flags?(date)?flags?(.*)$, in the order the engine tries
MatchCands(s) ==
    Flatten([a \in 1..Len(FlagCands(s, 1)) |->
        LET f1 == FlagCands(s, 1)[a]
        IN Flatten([d \in 1..Len(DateCands(s, f1.next)) |->
              LET dc == DateCands(s, f1.next)[d]
              IN Flatten([c \in 1..Len(FlagCands(s, dc.next)) |->
                    LET f2 == FlagCands(s, dc.next)[c]
                    IN IF RestMatches(s, f2.next)
                       THEN << << f1.flag, dc.g2, dc.g3, dc.g4, dc.g5, dc.g6, f2.flag,
                                  Str(SubSeq(s, f2.next, Len(s))) >> >>
                       ELSE <<>>])])])

NoMatch == [nul |-> TRUE, g |-> <<>>]

\* value.match(this.getExpression()): null, or the capture slots 1..8
Match(s) ==
    IF MatchCands(s) = <<>> THEN NoMatch
    ELSE [nul |-> FALSE, g |-> Head(MatchCands(s))]

----------------------------------------------------------------------------
(* Dates.  A Date is the number of its local calendar day, counted from     *)
(* 1970-01-01.  Date.UTC gives milliseconds in the code; here time is       *)
(* counted in hours, so that every instant fits the integers of the model   *)
(* checker, and the length of a day, 1000 * 60 * 60 * 24 ms on line 255, is *)
(* DayLength hours.                                                         *)

DayLength == 24

\* the day number of the proleptic Gregorian date y-m-d (m in 1..12)
DaysFromCivil(y, m, d) ==
    LET yy  == IF m <= 2 THEN y - 1 ELSE y
        era == yy \div 400
        yoe == yy - era * 400
        mp  == (m + 9) % 12
        doy == (153 * mp + 2) \div 5 + d - 1
        doe == yoe * 365 + yoe \div 4 - yoe \div 100 + doy
    IN era * 146097 + doe - 719468

\* the calendar date of a day number
CivilFromDays(z0) ==
    LET z   == z0 + 719468
        era == z \div 146097
        doe == z - era * 146097
        yoe == (doe - doe \div 1460 + doe \div 36524 - doe \div 146096) \div 365
        doy == doe - (365 * yoe + yoe \div 4 - yoe \div 100)
        mp  == (5 * doy + 2) \div 153
        d   == doy - (153 * mp + 2) \div 5 + 1
        m   == IF mp < 10 THEN mp + 3 ELSE mp - 9
    IN [y |-> (yoe + era * 400) + (IF m <= 2 THEN 1 ELSE 0), m |-> m, d |-> d]

getFullYear(date) == CivilFromDays(date).y

\* 0-based
getMonth(date) == CivilFromDays(date).m - 1

getDate(date) == CivilFromDays(date).d

\* 0 is Sunday; 1970-01-01 was a Thursday
getDay(date) == (date + 4) % 7

\* Date.UTC(year, month, day) of numbers: NaN if an argument is NaN; a year
\* in 0..99 stands for 1900 + year; month and day outside their range carry
\* over into the neighbouring months and years.
DateUTC(year, month, day) ==
    IF year.nan \/ month.nan \/ day.nan THEN NaN
    ELSE LET y == IF year.n \in 0..99 THEN 1900 + year.n ELSE year.n
         IN Num((DaysFromCivil(y + month.n \div 12, (month.n % 12) + 1, 1)
                    + day.n - 1) * DayLength)

Minus1(x) == IF x.nan THEN NaN ELSE Num(x.n - 1)

----------------------------------------------------------------------------
(* State *)

VARIABLES
    clock,     \* the wall clock: what new Date() returns
    today,     \* Parser.today
    expr,      \* Parser.expr: TRUE once the RegExp is built
    pc,        \* position in parseInput: "idle", "try", "match", "extract", "assemble"
    value,     \* the argument of the running (or last) parseInput call
    res,       \* the local res of parseInput
    input,     \* the local input of parseInput
    promise,   \* the promise parseInput returned
    settles,   \* the resolve/reject calls the running (or last) call has made
    entry,     \* the clock when the running (or last) call was entered
    calls,     \* the number of parseInput calls made
    ticks,     \* the number of clock advances made
    fn         \* the last direct application of a resolution function

vars == <<clock, today, expr, pc, value, res, input, promise, settles, entry,
          calls, ticks, fn>>

----------------------------------------------------------------------------
(* The resolution algorithms *)

\* J.Util.getDayOfWeekForString: the index of a weekday name, 0 is Sunday
getDayOfWeekForString(weekday) ==
    CASE weekday \in {<<"s","u","n","d","a","y">>, <<"s","u","n">>,
                      <<"s","o","n","n","t","a","g">>} -> 0
      [] weekday \in {<<"m","o","n","d","a","y">>, <<"m","o","n">>,
                      <<"m","o","n","t","a","g">>} -> 1
      [] weekday \in {<<"t","u","e","s","d","a","y">>, <<"t","u","e">>,
                      <<"d","i","e","n","s","t","a","g">>} -> 2
      [] weekday \in {<<"w","e","d","n","e","s","d","a","y">>, <<"w","e","d">>,
                      <<"m","i","t","t","w","o","c","h">>} -> 3
      [] weekday \in {<<"t","h","u","r","s","d","a","y">>, <<"t","h","u">>,
                      <<"d","o","n","n","e","r","s","t","a","g">>} -> 4
      [] weekday \in {<<"f","r","i","d","a","y">>, <<"f","r","i">>,
                      <<"f","r","e","i","t","a","g">>} -> 5
      [] weekday \in {<<"s","a","t","u","r","d","a","y">>, <<"s","a","t">>,
                      <<"s","a","m","s","t","a","g">>} -> 6
      [] OTHER -> -1

\* resolveOffsetString that reads a string without a sign as positive
resolveOffsetStringUnsignedPositive(v) ==
    IF StartsWithAt(v, 1, <<"-">>)
    THEN LET p == parseInt(SubSeq(v, 2, Len(v)))
         IN IF p.nan THEN NaN ELSE Num(p.n * (-1))
    ELSE IF StartsWithAt(v, 1, <<"+">>) THEN parseInt(SubSeq(v, 2, Len(v)))
    ELSE parseInt(v)

resolveOffsetString(v) ==
    IF StartsWithAt(v, 1, <<"+">>)
    THEN parseInt(SubSeq(v, 2, Len(v)))
    ELSE IF StartsWithAt(v, 1, <<"-">>)
    THEN LET p == parseInt(SubSeq(v, 2, Len(v)))
         IN IF p.nan THEN NaN ELSE Num(p.n * (-1))
    ELSE NaN

resolveShortcutString(v) ==
    IF ContainsAny(v, {<<"t","o","d","a","y">>, <<"t","o","d">>,
                       <<"h","e","u","t","e">>, <<"0">>})
    THEN Num(0)
    ELSE IF ContainsAny(v, {<<"t","o","m","o","r","r","o","w">>, <<"t","o","m">>,
                            <<"m","o","r","g","e","n">>})
    THEN Num(1)
    ELSE IF ContainsAny(v, {<<"y","e","s","t","e","r","d","a","y">>, <<"y","e","s">>,
                            <<"g","e","s","t","e","r","n">>})
    THEN Num(-1)
    ELSE NaN

\* a range check that takes the upper bound as one past the last value
OutOfRangeExclusive(isSet, x, hi) == isSet /\ ~x.nan /\ (x.n < 0 \/ x.n >= hi)

\* the range checks of resolveISOString on a month or day that may be
\* undefined: no comparison with NaN is true
OutOfRange(isSet, x, hi) == isSet /\ ~x.nan /\ (x.n < 0 \/ x.n > hi)

resolveISOString(v) ==
    LET todayInMS == DateUTC(Num(getFullYear(today)), Num(getMonth(today)),
                             Num(getDate(today)))
        dt       == split(v)
        hasYear  == Len(dt) >= 3
        hasMonth == Len(dt) >= 2
        year     == IF hasYear THEN parseInt(dt[1]) ELSE NaN
        month    == IF hasYear THEN Minus1(parseInt(dt[2]))
                    ELSE IF hasMonth THEN Minus1(parseInt(dt[1])) ELSE NaN
        day      == IF hasYear THEN parseInt(dt[3])
                    ELSE IF hasMonth THEN parseInt(dt[2]) ELSE parseInt(dt[1])
        inputInMS ==
            IF hasYear THEN DateUTC(year, month, day)
            ELSE IF hasMonth THEN DateUTC(Num(getFullYear(today)), month, day)
            ELSE DateUTC(Num(getFullYear(today)), Num(getMonth(today)), day)
    IN IF OutOfRange(hasMonth, month, 12) THEN Thrown("Invalid value for month")
       ELSE IF OutOfRange(TRUE, day, 31) THEN Thrown("Invalid value for day")
       ELSE IF ~hasYear /\ ~hasMonth /\ (day.nan \/ day.n = 0)
       THEN Thrown("Failed to parse the date")
       ELSE IF inputInMS.nan \/ todayInMS.nan THEN Returned(NaN)
       ELSE Returned(Num((inputInMS.n - todayInMS.n) \div DayLength))

\* resolveWeekday with the same weekday taken as today (diff < 0, diff >= 0 for next)
resolveWeekdaySameDayToday(mod, weekday) ==
    LET diff == getDayOfWeekForString(weekday) - getDay(today)
        next == Len(mod) > 0 /\ mod[1] = "n"
    IN IF ~next /\ diff < 0 THEN Num(diff)
       ELSE IF ~next THEN Num(diff - 7)
       ELSE IF diff < 0 THEN Num(diff + 7)
       ELSE Num(diff)

resolveWeekday(mod, weekday) ==
    LET searchedDay == getDayOfWeekForString(weekday)
        currentDay  == getDay(today)
        diff        == searchedDay - currentDay
        next        == Len(mod) > 0 /\ mod[1] = "n"
    IN IF ~next /\ diff < 0 THEN Num(diff)
       ELSE IF ~next /\ diff >= 0 THEN Num(diff - 7)
       ELSE IF next /\ diff <= 0 THEN Num(diff + 7)
       ELSE IF next /\ diff > 0 THEN Num(diff)
       ELSE NaN

----------------------------------------------------------------------------
(* The extractors *)

extractScope(values) == "default"

extractText(values) == IF values[8] = Null THEN Str(<<>>) ELSE values[8]

extractFlags(values) ==
    LET r == IF ~isNullOrUndefined(values[1]) THEN values[1] ELSE values[7]
    IN IF isNullOrUndefined(r) THEN <<>> ELSE r.s

\* (values[k] !== null) ? values[k] : ""
SlotOrEmpty(v) == IF v # Null THEN v ELSE Str(<<>>)

\* Reading .length of a slot throws a TypeError unless the slot is a string.
extractOffset(values) ==
    LET shortcut == SlotOrEmpty(values[2])
        offset   == SlotOrEmpty(values[3])
        iso      == SlotOrEmpty(values[4])
        nextLast == SlotOrEmpty(values[5])
        weekday  == SlotOrEmpty(values[6])
    IN IF shortcut.t # "string" THEN Thrown(TypeError)
       ELSE IF Len(shortcut.s) > 0 THEN Returned(resolveShortcutString(shortcut.s))
       ELSE IF offset.t # "string" THEN Thrown(TypeError)
       ELSE IF Len(offset.s) > 0 THEN Returned(resolveOffsetString(offset.s))
       ELSE IF iso.t # "string" THEN Thrown(TypeError)
       ELSE IF Len(iso.s) > 0 THEN resolveISOString(iso.s)
       ELSE IF nextLast.t # "string" THEN Thrown(TypeError)
       ELSE IF Len(nextLast.s) = 0 THEN Returned(NaN)
       ELSE IF weekday.t # "string" THEN Thrown(TypeError)
       ELSE IF Len(weekday.s) > 0 THEN Returned(resolveWeekday(nextLast.s, weekday.s))
       ELSE Returned(NaN)

----------------------------------------------------------------------------
(* J.Model.Input and the promise of parseInput *)

NoInput == [flags |-> <<>>, offset |-> NaN, text |-> Undef, scope |-> ""]

\* new J.Model.Input()
NewInput == [flags |-> <<>>, offset |-> Num(0), text |-> Str(<<>>), scope |-> ""]

hasFlags(in) == Len(in.flags) > 0

hasMemo(in) == ~isNullOrUndefined(in.text) /\ Len(in.text.s) > 0

hasOffset(in) == ~in.offset.nan

Memo == <<"m","e","m","o">>

CANCEL == "cancel"

NOTEXT == "No text found for memo or task"

Pending == [state |-> "pending", reason |-> "", input |-> NoInput]

Resolve(in) == [state |-> "fulfilled", reason |-> "", input |-> in]

Reject(e) == [state |-> "rejected", reason |-> e, input |-> NoInput]

\* a promise that every resolve/reject call overwrites
SettleLastWins(p, a) == a

\* resolve(...) or reject(...) on a promise: only a pending promise changes
Settle(p, a) == IF p.state = "pending" THEN a ELSE p

RECURSIVE SettleAll(_, _)
SettleAll(p, as) ==
    IF as = <<>> THEN p ELSE SettleAll(Settle(p, Head(as)), Tail(as))

\* lines 109-124: the input as resolve(input) receives it
Defaulted(in) ==
    LET withFlags ==
            IF ~hasFlags(in) /\ hasMemo(in) /\ Len(in.text.s) > 6
            THEN [in EXCEPT !.flags = Memo] ELSE in
    IN IF ~hasOffset(withFlags) /\ hasFlags(withFlags) /\ hasMemo(withFlags)
       THEN [withFlags EXCEPT !.offset = Num(0)] ELSE withFlags

\* lines 109-126: the resolve/reject calls made once the slots are extracted
AssembleSettles(in) ==
    (IF hasFlags(in) /\ ~hasMemo(in) THEN << Reject(NOTEXT) >> ELSE <<>>)
        \o << Resolve(Defaulted(in)) >>

----------------------------------------------------------------------------
(* Bounds and the inputs drawn *)

MaxCalls == 2

MaxTicks == 2

MaxTextLen == 8

MaxOffset == 3

MaxMonthTok == 14

MaxDayTok == 33

NumRefDays == 8

Phrase == <<"t","r","i","p"," ","n","o","w"," ","o","k">>

\* no text, a short text, and the lengths around the threshold of line 116
Texts == { SubSeq(Phrase, 1, n) : n \in {0, 4} \cup (6..MaxTextLen) }

\* the decimal digits of n, one or two of them
DecTok(n) ==
    IF n < 10 THEN << DigitChars[n + 1] >>
    ELSE << DigitChars[(n \div 10) + 1], DigitChars[(n % 10) + 1] >>

\* the same with a leading zero for n < 10
PadTok(n) == IF n < 10 THEN <<"0">> \o DecTok(n) ELSE DecTok(n)

SignedTokens ==
    { <<sg>> \o DecTok(n) : sg \in {"+", "-"}, n \in (0..MaxOffset) \cup {12} }

GermanShortcuts ==
    { <<"h","e","u","t","e">>, <<"m","o","r","g","e","n">>,
      <<"g","e","s","t","e","r","n">> }

ShortcutVocabulary == { ShortcutWords[k] : k \in 1..Len(ShortcutWords) } \cup GermanShortcuts

SampleDates ==
    { <<"2","4">>, <<"0","0">>, <<"1","0","-","2","4">>,
      <<"2","0","2","4","-","1","-","1","5">> }

SampleWeekdays ==
    { <<"n","e","x","t"," ","m","o","n","d","a","y">>,
      <<"l"," ","f","r","i">> }

DateParts ==
    {<<>>} \cup ShortcutVocabulary \cup SignedTokens \cup SampleDates \cup SampleWeekdays

LeadFlags == { <<>>, <<"t","a","s","k"," ">>, <<"t","o","d","o"," ">> }

\* flag, date expression and text put together as the user types them
Join(f, d, t) == f \o d \o (IF d # <<>> /\ t # <<>> THEN <<SP>> ELSE <<>>) \o t

\* the date expression first, then the flag
JoinTrailing(d, f, t) == d \o <<SP>> \o f \o t

Inputs ==
    { Join(f, d, <<>>) : f \in LeadFlags, d \in DateParts }
        \cup { Join(f, <<>>, t) : f \in LeadFlags, t \in Texts }
        \cup { Join(<<>>, d, t) : d \in SignedTokens \cup SampleDates, t \in Texts }
        \cup { Join(<<>>, d, SubSeq(Phrase, 1, 4)) : d \in DateParts }
        \cup { JoinTrailing(d, <<"t","a","s","k"," ">>, t) :
                 d \in {<<"t","o","d","a","y">>, <<"2","4">>}, t \in Texts }
        \cup { <<"t","a","s","k">>, <<"t","o","d","o">>, <<NL>>,
               <<"t","o","d","a","y",NL>> }

Values == { Str(s) : s \in Inputs } \cup { Null, Undef }

StartDay == DaysFromCivil(2024, 2, 26)

RefDays == { StartDay + k : k \in 0..(NumRefDays - 1) } \cup { DaysFromCivil(2023, 12, 31) }

----------------------------------------------------------------------------
(* The Parser: constructor, parseInput step by step, and the clock *)

NoFn == [op |-> "", arg |-> <<>>, mod |-> <<>>, out |-> Returned(NaN)]

\* constructor (lines 31-33)
Init ==
    /\ clock = StartDay
    /\ today = clock
    /\ expr = FALSE
    /\ pc = "idle"
    /\ value = Undef
    /\ res = NoMatch
    /\ input = NoInput
    /\ promise = Pending
    /\ settles = <<>>
    /\ entry = clock
    /\ calls = 0
    /\ ticks = 0
    /\ fn = NoFn

\* wall-clock time advances, also while a call runs
Tick ==
    /\ ticks < MaxTicks
    /\ clock' = clock + 1
    /\ ticks' = ticks + 1
    /\ UNCHANGED <<today, expr, pc, value, res, input, promise, settles, entry,
                   calls, fn>>

\* parseInput(v), lines 88-94: a new promise; reject("cancel") on an absent
\* value, and the executor goes on
ParseInput(v) ==
    /\ pc = "idle"
    /\ calls < MaxCalls
    /\ value' = v
    /\ settles' = IF isNullOrUndefined(v) THEN << Reject(CANCEL) >> ELSE <<>>
    /\ promise' = SettleAll(Pending, settles')
    /\ res' = NoMatch
    /\ input' = NoInput
    /\ entry' = clock
    /\ calls' = calls + 1
    /\ pc' = "try"
    /\ UNCHANGED <<clock, today, expr, ticks, fn>>

\* the reference date kept from the constructor or the call before
SnapshotStale == today

\* the value new Date() gives on line 98
Snapshot == clock

\* lines 96-98
EnterTry ==
    /\ pc = "try"
    /\ input' = NewInput
    /\ today' = Snapshot
    /\ pc' = "match"
    /\ UNCHANGED <<clock, expr, value, res, promise, settles, entry, calls, ticks, fn>>

\* lines 130-133: the catch block
Caught(e) ==
    /\ settles' = Append(settles, Reject(e))
    /\ promise' = Settle(promise, Reject(e))
    /\ pc' = "idle"

\* lines 100-101: value.match(...) throws on an absent value
MatchStep ==
    /\ pc = "match"
    /\ IF value.t # "string"
       THEN /\ Caught(TypeError)
            /\ UNCHANGED <<res, expr>>
       ELSE /\ res' = Match(value.s)
            /\ expr' = TRUE
            /\ settles' = settles \o (IF res'.nul THEN << Reject(CANCEL) >> ELSE <<>>)
            /\ promise' = SettleAll(promise, IF res'.nul THEN << Reject(CANCEL) >> ELSE <<>>)
            /\ pc' = "extract"
    /\ UNCHANGED <<clock, today, value, input, entry, calls, ticks, fn>>

\* lines 103-106: the slots of a null res cannot be read; extractOffset may throw
ExtractStep ==
    /\ pc = "extract"
    /\ IF res.nul
       THEN /\ Caught(TypeError)
            /\ UNCHANGED input
       ELSE LET off == extractOffset(res.g)
            IN IF off.thrown # ""
               THEN /\ Caught(off.thrown)
                    /\ input' = [input EXCEPT !.flags = extractFlags(res.g)]
               ELSE /\ input' = [flags  |-> extractFlags(res.g),
                                 offset |-> off.val,
                                 text   |-> extractText(res.g),
                                 scope  |-> extractScope(res.g)]
                    /\ pc' = "assemble"
                    /\ UNCHANGED <<promise, settles>>
    /\ UNCHANGED <<clock, today, expr, value, res, entry, calls, ticks, fn>>

\* lines 108-128
AssembleStep ==
    /\ pc = "assemble"
    /\ input' = Defaulted(input)
    /\ settles' = settles \o AssembleSettles(input)
    /\ promise' = SettleAll(promise, AssembleSettles(input))
    /\ pc' = "idle"
    /\ UNCHANGED <<clock, today, expr, value, res, entry, calls, ticks, fn>>

Next ==
    \/ Tick
    \/ \E v \in Values : ParseInput(v)
    \/ EnterTry
    \/ MatchStep
    \/ ExtractStep
    \/ AssembleStep

Spec == Init /\ [][Next]_vars

\* a parseInput call has run to its end
Done == pc = "idle" /\ calls > 0

----------------------------------------------------------------------------
(* The resolution functions applied directly, each once on a drawn input *)

YearToks ==
    { <<"2","0","2","4">>, <<"2","0","2","3">>, <<"1","9","9","9">>, <<"0","0","5","0">> }

MonthToks == { DecTok(n) : n \in 0..MaxMonthTok } \cup { PadTok(n) : n \in 0..9 }

DayToks == { DecTok(n) : n \in 0..MaxDayTok } \cup { PadTok(n) : n \in 0..9 }

\* the calendar-date tokens of the three arities: YYYY-M-D, M-D, D
IsoTokens ==
    { y \o <<"-">> \o m \o <<"-">> \o d : y \in YearToks, m \in MonthToks, d \in DayToks }
        \cup { m \o <<"-">> \o d : m \in MonthToks, d \in DayToks }
        \cup DayToks

UnsignedTokens == { DecTok(n) : n \in (0..MaxOffset) \cup {12} }

OffsetArgs == SignedTokens \cup UnsignedTokens

ShortcutArgs == ShortcutVocabulary \cup { <<"t","r","i","p">> }

InitFn ==
    /\ clock \in RefDays
    /\ today = clock
    /\ expr = FALSE
    /\ pc = "idle"
    /\ value = Undef
    /\ res = NoMatch
    /\ input = NoInput
    /\ promise = Pending
    /\ settles = <<>>
    /\ entry = clock
    /\ calls = 0
    /\ ticks = 0
    /\ fn = NoFn

\* one application per behaviour
Applied(op, arg, mod, out) ==
    /\ fn' = [op |-> op, arg |-> arg, mod |-> mod, out |-> out]
    /\ UNCHANGED <<clock, today, expr, pc, value, res, input, promise, settles,
                   entry, calls, ticks>>

ApplyResolveOffsetString ==
    /\ fn = NoFn
    /\ \E v \in OffsetArgs :
          Applied("resolveOffsetString", v, <<>>, Returned(resolveOffsetString(v)))

ApplyResolveShortcutString ==
    /\ fn = NoFn
    /\ \E v \in ShortcutArgs :
          Applied("resolveShortcutString", v, <<>>, Returned(resolveShortcutString(v)))

ApplyResolveISOString ==
    /\ fn = NoFn
    /\ \E v \in IsoTokens :
          Applied("resolveISOString", v, <<>>, resolveISOString(v))

ApplyResolveWeekday ==
    /\ fn = NoFn
    /\ \E m \in 1..Len(ModifierWords), w \in 1..Len(WeekdayWords) :
          Applied("resolveWeekday", WeekdayWords[w], ModifierWords[m],
                  Returned(resolveWeekday(ModifierWords[m], WeekdayWords[w])))

NextFn ==
    \/ ApplyResolveOffsetString
    \/ ApplyResolveShortcutString
    \/ ApplyResolveISOString
    \/ ApplyResolveWeekday

FnSpec == InitFn /\ [][NextFn]_vars

----------------------------------------------------------------------------
(* Claims *)

\* C1: parseInput of an absent value (null, undefined) or of "" ends
\* rejected with "cancel", and in no other outcome.
C1_AbsentOrEmptyCancels ==
    (Done /\ (isNullOrUndefined(value) \/ value = Str(<<>>)))
        => promise = Reject(CANCEL)

BareFlagInputs ==
    { <<"t","a","s","k">>, <<"t","o","d","o">>,
      <<"t","a","s","k"," ">>, <<"t","o","d","o"," ">> }

\* C2: parseInput of a flag word without memo text, the bare "task" among
\* them, ends rejected with "No text found for memo or task".
C2_FlagWithoutTextRejected ==
    (Done /\ value.t = "string" /\ value.s \in BareFlagInputs)
        => promise = Reject(NOTEXT)

\* C3: parseInput of <sign><digits>, a space and a text of at most 6
\* characters resolves with the signed integer as offset, the text as text
\* and no flags.
C3_SignedOffsetResolved ==
    \A sg \in {"+", "-"}, n \in (0..MaxOffset) \cup {12}, t \in Texts :
        (Done /\ Len(t) \in 1..6 /\ value = Str(<<sg>> \o DecTok(n) \o <<SP>> \o t))
            => promise = Resolve([flags  |-> <<>>,
                                  offset |-> Num(IF sg = "+" THEN n ELSE 0 - n),
                                  text   |-> Str(t),
                                  scope  |-> "default"])

\* the flags the claim C4 expects for a flag part f and a text t
C4Flags(f, t) ==
    IF f # <<>> THEN SubSeq(f, 1, 4) ELSE IF Len(t) > 6 THEN Memo ELSE <<>>

\* C4: parseInput of a non-empty text without date expression resolves with
\* the given flag word, or "memo" for a text of more than 6 characters, or
\* no flags; the offset is 0 when there are flags and unresolved otherwise.
C4_TextWithoutDateResolved ==
    \A f \in LeadFlags, t \in Texts \ {<<>>} :
        (Done /\ value = Str(Join(f, <<>>, t)))
            => promise = Resolve([flags  |-> C4Flags(f, t),
                                  offset |-> IF C4Flags(f, t) # <<>> THEN Num(0) ELSE NaN,
                                  text   |-> Str(t),
                                  scope  |-> "default"])

\* the offset the shortcut vocabulary gives each of its words
ShortcutOffset(w) ==
    IF w \in {<<"t","o","d","a","y">>, <<"t","o","d">>, <<"h","e","u","t","e">>, <<"0">>}
    THEN 0
    ELSE IF w \in {<<"t","o","m","o","r","r","o","w">>, <<"t","o","m">>,
                   <<"m","o","r","g","e","n">>}
    THEN 1
    ELSE -1

\* the input s is the word w, alone or followed by whitespace
IsWordThenSpace(s, w) ==
    /\ StartsWithAt(s, 1, w)
    /\ Len(s) = Len(w) \/ IsSpace(s[Len(w) + 1])

\* C5: every word of the shortcut vocabulary, as the whole input or followed
\* by whitespace, is captured in the shortcut slot and resolved to its
\* offset (0, +1 or -1).
C5_ShortcutVocabularyRecognised ==
    \A w \in ShortcutVocabulary :
        (Done /\ value.t = "string" /\ IsWordThenSpace(value.s, w))
            => /\ ~res.nul
               /\ res.g[2] = Str(w)
               /\ extractOffset(res.g) = Returned(Num(ShortcutOffset(w)))

\* C6: resolveWeekday gives an offset in 1..7 for a modifier that begins
\* with n and in -7..-1 for any other, never 0 and never NaN; +7 or -7 when
\* the weekday is that of the reference date; and the reference weekday plus
\* the offset is the target weekday modulo 7.
C6_WeekdayOffsetRange ==
    fn.op = "resolveWeekday" =>
        LET o      == fn.out.val
            target == getDayOfWeekForString(fn.arg)
            ref    == getDay(today)
            next   == fn.mod[1] = "n"
        IN /\ fn.out.thrown = ""
           /\ ~o.nan
           /\ target \in 0..6
           /\ next => o.n \in 1..7
           /\ ~next => o.n \in (0 - 7)..(0 - 1)
           /\ target = ref => o.n = IF next THEN 7 ELSE 0 - 7
           /\ (ref + o.n) % 7 = target

\* "next" of the weekday of the reference date is a week ahead
C6_SameDayNext ==
    /\ fn.op = "resolveWeekday"
    /\ fn.mod = <<"n","e","x","t">>
    /\ getDayOfWeekForString(fn.arg) = getDay(today)
    /\ fn.out.val = Num(7)

\* the 0-based month, the day and the arity of a calendar-date token
TokParts(v) == split(v)

TokMonth0(v) ==
    IF Len(TokParts(v)) >= 3 THEN parseInt(TokParts(v)[2]).n - 1
    ELSE parseInt(TokParts(v)[1]).n - 1

TokDay(v) == parseInt(TokParts(v)[IF Len(TokParts(v)) >= 3 THEN 3 ELSE Len(TokParts(v))]).n

TokOutOfRange(v) ==
    \/ Len(TokParts(v)) >= 2 /\ (TokMonth0(v) < 0 \/ TokMonth0(v) > 12)
    \/ TokDay(v) < 0 \/ TokDay(v) > 31

\* C7 as stated: resolveISOString throws when the 0-based month is outside
\* 0..12 or the day outside 0..31, and returns an integer otherwise.
C7_RangeCheckOnly ==
    fn.op = "resolveISOString" =>
        IF TokOutOfRange(fn.arg)
        THEN fn.out.thrown # ""
        ELSE fn.out.thrown = "" /\ ~fn.out.val.nan

\* C7 amended: resolveISOString throws when the 0-based month is outside
\* 0..12 or the day outside 0..31; it also throws ("Failed to parse the
\* date") on a day-only token of value 0; otherwise it returns an integer:
\* day 0 with a month, day 31 for any month and month token 13 are accepted.
C7_RangeCheckAndZeroDay ==
    fn.op = "resolveISOString" =>
        IF TokOutOfRange(fn.arg)
        THEN fn.out.thrown \in {"Invalid value for month", "Invalid value for day"}
        ELSE IF Len(TokParts(fn.arg)) = 1 /\ TokDay(fn.arg) = 0
        THEN fn.out.thrown = "Failed to parse the date"
        ELSE fn.out.thrown = "" /\ ~fn.out.val.nan

\* month token 13 with day 31 is accepted and resolved
C7_Month13Day31 ==
    /\ fn.op = "resolveISOString"
    /\ fn.arg = <<"1","3","-","3","1">>
    /\ fn.out.thrown = ""
    /\ ~fn.out.val.nan

\* C8: in every parseInput call the reference date is replaced by a fresh
\* snapshot before a slot is extracted (it is read from the clock during
\* the call, not kept from the constructor or an earlier call), and it does
\* not change from then to the end of the call.
C8_FreshSnapshotPerCall ==
    /\ [](pc \in {"match", "extract", "assemble"} => (entry <= today /\ today <= clock))
    /\ [](Done => entry <= today)
    /\ [][(pc \in {"match", "extract", "assemble"}) => (today' = today)]_vars

\* a second call extracts its slots under a snapshot later than the
\* constructor's, while the clock has moved on since the snapshot
C8_SecondCallExtracting ==
    /\ calls = 2
    /\ pc = "extract"
    /\ ~res.nul
    /\ today > StartDay
    /\ entry = today
    /\ clock > today

\* C9 as stated: resolveOffsetString gives +n for "+n", -n for "-n", and n
\* for digits without a sign.
C9_UnsignedIsPositive ==
    \A n \in (0..MaxOffset) \cup {12} :
        /\ (fn.op = "resolveOffsetString" /\ fn.arg = <<"+">> \o DecTok(n))
              => fn.out = Returned(Num(n))
        /\ (fn.op = "resolveOffsetString" /\ fn.arg = <<"-">> \o DecTok(n))
              => fn.out = Returned(Num(0 - n))
        /\ (fn.op = "resolveOffsetString" /\ fn.arg = DecTok(n))
              => fn.out = Returned(Num(n))

\* C9 amended: resolveOffsetString gives +n for "+n", -n for "-n", and the
\* unresolved value (NaN) for digits without a sign.
C9_UnsignedIsUnresolved ==
    \A n \in (0..MaxOffset) \cup {12} :
        /\ (fn.op = "resolveOffsetString" /\ fn.arg = <<"+">> \o DecTok(n))
              => fn.out = Returned(Num(n))
        /\ (fn.op = "resolveOffsetString" /\ fn.arg = <<"-">> \o DecTok(n))
              => fn.out = Returned(Num(0 - n))
        /\ (fn.op = "resolveOffsetString" /\ fn.arg = DecTok(n))
              => fn.out = Returned(NaN)

\* digits without a sign have been resolved
C9_UnsignedApplied ==
    /\ fn.op = "resolveOffsetString"
    /\ fn.arg = <<"1","2">>
    /\ fn.out = Returned(NaN)

\* C10: the outcome of a parseInput call is that of the first resolve or
\* reject it makes; later ones do not replace it, every call ends settled,
\* and a call that made a reject is never fulfilled.
C10_FirstSettleWins ==
    /\ (settles = <<>>) <=> (promise.state = "pending")
    /\ settles # <<>> => promise = Head(settles)
    /\ Done => settles # <<>>
    /\ (\E i \in 1..Len(settles) : settles[i].state = "rejected")
          => promise.state = "rejected"

\* a call rejected for a flag without text went on to resolve(input)
C10_RejectThenResolve ==
    /\ Done
    /\ Len(settles) = 2
    /\ settles[1] = Reject(NOTEXT)
    /\ settles[2].state = "fulfilled"
    /\ promise = Reject(NOTEXT)

=============================================================================
